---- MODULE Spec2Model ----
(***************************************************************************)
(* Model of wsrep::client_state (src/src/client_state.cpp): the per-session *)
(* lifecycle and mode machines and the hooks that reconcile a session with *)
(* brute-force aborts delivered by remote high-priority appliers.          *)
(*                                                                         *)
(* One session is driven by its client threads, one call at a time; a      *)
(* remote applier and the background rollbacker run beside it and take the *)
(* client mutex for their own steps.  A hook that drops the mutex around   *)
(* an embedder call is split at the unlock, so the other threads can run   *)
(* in between; the assertions on the calling thread are taken when the     *)
(* call is entered, the owning thread being fixed during a call.  The      *)
(* instant a call returns is a state of its own                            *)
(* (pc = "returned"), left by Ack, so that a hook's result can be compared *)
(* with the snapshot taken when it was entered.                            *)
(***************************************************************************)
EXTENDS Integers, Sequences, FiniteSets, TLC

\* ------------------------------------------------------------------ bounds
MaxThread == 2
MaxClientId == 2
\* how far the provider's enter_toi and leave_toi calls may run apart
MaxToiOpen == 1

\* threads that may sit in wait_until_state at a time
MaxWaiter == 1
\* how deep pause() calls may nest
MaxPause == 2

Threads == 1..MaxThread
ClientIds == 1..MaxClientId

\* ------------------------------------------------------------ enumerations
\* enum wsrep::client_state::state, in declaration order
States == <<"s_none", "s_idle", "s_exec", "s_result", "s_quitting">>
StateSet == {States[i] : i \in 1..Len(States)}

\* enum wsrep::client_state::mode, in declaration order
Modes == <<"m_local", "m_replicating", "m_high_priority", "m_toi">>
ModeSet == {Modes[i] : i \in 1..Len(Modes)}

\* enum wsrep::client_error
ClientErrors == {"e_success", "e_deadlock_error", "e_interrupted_error",
                 "e_size_exceeded_error", "e_append_fragment_error",
                 "e_error_during_commit"}

\* the substates of wsrep::transaction the hooks look at
TrxStates == {"s_executing", "s_must_abort", "s_aborting", "s_aborted",
              "s_committed"}

RollbackModes == {"rm_async", "rm_sync"}

\* wsrep::provider::status, as far as the hooks tell the values apart
ProviderStatus == {"success", "error_connection_failed"}

Index(seq, x) == CHOOSE i \in 1..Len(seq) : seq[i] = x

VARIABLES
    \* wsrep::client_state
    state_, mode_, toi_mode_, toi_meta_, current_error_,
    owning_thread_id_, current_thread_id_, id_,
    \* the embedded wsrep::transaction
    trx_active, trx_state,
    \* fixed at construction
    rollback_mode_, provider_, ndebug,
    \* the client mutex and the call in progress
    mutex_, pc, hook, arg, pre, ret, thrown,
    \* history: the call that returned last was after_command_before_result,
    \* entered in s_exec with an active transaction in s_must_abort
    bf_absorbed,
    \* history: the call that returned last, where a round trip starts with it
    trail,
    \* the embedder calls the call in progress has made, and the client
    \* fields it has touched without the mutex, in order
    trace,
    \* provider side: successful enter_toi calls less leave_toi calls
    provider_toi_open,
    \* wsrep::server_state
    server_state_, init_initialized_, state_waiters_, pause_count_,
    \* what server_service_.sst_before_init() answers
    sst_before_init,
    \* the server mutex, and where each thread that works on the server is
    server_mutex_, server_pc,
    \* the state each thread in wait_until_state() waits for, "-" for none
    waiting,
    \* history: the last call of state(lock, state), and the last read of a
    \* server field through a public getter
    asked, observed

clientVars == <<state_, mode_, toi_mode_, toi_meta_, current_error_,
                owning_thread_id_, current_thread_id_, id_>>
trxVars == <<trx_active, trx_state>>
serverVars == <<server_state_, init_initialized_, state_waiters_, pause_count_,
                sst_before_init, server_mutex_, server_pc, waiting, asked,
                observed>>
cfgVars == <<rollback_mode_, provider_, ndebug, serverVars>>
callVars == <<mutex_, pc, hook, arg, pre, ret, thrown, bf_absorbed, trail,
              trace, provider_toi_open>>
vars == <<clientVars, trxVars, cfgVars, callVars>>

\* what a hook sees on entry
Snapshot == [state |-> state_, mode |-> mode_, toi_mode |-> toi_mode_,
             toi_meta |-> toi_meta_, error |-> current_error_,
             owner |-> owning_thread_id_, current |-> current_thread_id_,
             id |-> id_, active |-> trx_active, trx |-> trx_state,
             bf_absorbed |-> bf_absorbed, trail |-> trail, trace |-> trace,
             provider_toi_open |-> provider_toi_open]

\* no round trip has been started by the last call
NoTrail == [last |-> "-", from |-> "-"]

NoCall == [state |-> "-", mode |-> "-", toi_mode |-> "-", toi_meta |-> "-",
           error |-> "-", owner |-> 0, current |-> 0, id |-> 0,
           active |-> FALSE, trx |-> "-", bf_absorbed |-> FALSE,
           trail |-> NoTrail, trace |-> << >>, provider_toi_open |-> 0]

\* ------------------------------------------------ state(), mode(), errors
\* the table with one more cell: cleanup straight from idle
StateAllowed_idle_to_none ==
    << <<0, 1, 0, 0, 0>>,
       <<1, 0, 1, 0, 1>>,
       <<0, 0, 0, 1, 0>>,
       <<0, 1, 0, 0, 0>>,
       <<1, 0, 0, 0, 0>> >>

StateAllowed ==
    \*  none idle exec result quit
    << <<0,   1,   0,   0,     0>>,    \* none
       <<0,   0,   1,   0,     1>>,    \* idle
       <<0,   0,   0,   1,     0>>,    \* exec
       <<0,   1,   0,   0,     0>>,    \* result
       <<1,   0,   0,   0,     0>> >>  \* quit

\* state() without the table: every transition is made
state_any(cur, new) == [state |-> new, thrown |-> "none"]

\* state() that drops a transition the table forbids and says nothing
state_ignored(cur, new) ==
    IF StateAllowed[Index(States, cur)][Index(States, new)] = 1
    THEN [state |-> new, thrown |-> "none"]
    ELSE [state |-> cur, thrown |-> "none"]

\* client_state::state(lock, state): the new state, or the error thrown
state(cur, new) ==
    IF StateAllowed[Index(States, cur)][Index(States, new)] = 1
    THEN [state |-> new, thrown |-> "none"]
    ELSE [state |-> cur, thrown |-> "Unallowed state transition"]

ModeAllowed ==
    \*  l  r  h  t
    << <<0, 0, 0, 0>>,    \* local
       <<0, 0, 1, 1>>,    \* repl
       <<0, 1, 0, 1>>,    \* high prio
       <<0, 1, 1, 0>> >>  \* toi

\* mode() without the table: every transition is made
mode_any(cur, new) == [mode |-> new, thrown |-> "none"]

\* client_state::mode(lock, mode): the new mode, or the error thrown
mode(cur, new) ==
    IF ModeAllowed[Index(Modes, cur)][Index(Modes, new)] = 1
    THEN [mode |-> new, thrown |-> "none"]
    ELSE [mode |-> cur, thrown |-> "Unallowed mode transition"]

\* override_error() without the check: success overwrites any error
override_error_any(cur, error) == [error |-> error, thrown |-> "none"]

\* client_state::override_error(error): the new error, or the error thrown
override_error(cur, error) ==
    IF cur # "e_success" /\ error = "e_success"
    THEN [error |-> cur, thrown |-> "Overriding error with success"]
    ELSE [error |-> error, thrown |-> "none"]

\* ------------------------------------------------------------ transaction
\* client_service::rollback(): the transaction ends up rolled back
ClientServiceRollback(tstate) == "s_aborted"

\* transaction::after_statement(): a transaction that has to abort is rolled
\* back with a deadlock error; one that is over (aborted, committed) is
\* cleaned up and is no longer active; one still executing stays.
TrxAfterStatement(active, tstate, error) ==
    IF ~active
    THEN [active |-> active, trx |-> tstate, error |-> error]
    ELSE IF tstate = "s_must_abort"
    THEN [active |-> FALSE, trx |-> ClientServiceRollback(tstate),
          error |-> override_error(error, "e_deadlock_error").error]
    ELSE IF tstate \in {"s_aborted", "s_committed"}
    THEN [active |-> FALSE, trx |-> tstate, error |-> error]
    ELSE [active |-> active, trx |-> tstate, error |-> error]

\* ------------------------------------------------------------------- Init
ClientInit ==
    /\ state_ = "s_none"
    /\ mode_ \in {"m_local", "m_replicating", "m_high_priority"}
    /\ toi_mode_ = "m_local"
    /\ toi_meta_ = "undefined"
    /\ current_error_ = "e_success"
    /\ owning_thread_id_ = 1
    /\ current_thread_id_ = 1
    /\ id_ = 1
    /\ trx_active = FALSE
    /\ trx_state = "s_executing"
    /\ rollback_mode_ \in RollbackModes
    /\ provider_ \in BOOLEAN
    /\ ndebug \in BOOLEAN
    /\ mutex_ = FALSE
    /\ pc = "ready"
    /\ hook = "none"
    /\ arg = "-"
    /\ pre = NoCall
    /\ ret = 0
    /\ thrown = "none"
    /\ bf_absorbed = FALSE
    /\ trail = NoTrail
    /\ trace = << >>
    /\ provider_toi_open = 0

\* ----------------------------------------------------------- server state
ServerStates == <<"s_disconnected", "s_initializing", "s_initialized",
                  "s_connected", "s_joiner", "s_joined", "s_donor",
                  "s_synced", "s_disconnecting">>
ServerStateSet == {ServerStates[i] : i \in DOMAIN ServerStates}

\* the threads that work on the server: the embedder's, the provider's, the
\* one that calls sst_received(), the one that calls disconnect()
ServerThreads == {"embedder", "provider", "joiner", "disconnecter"}
Waiters == 1..MaxWaiter

\* the diagram that takes both policies for one
ServerDiagram_one_path(before_init) ==
    {<<"s_disconnected", "s_initializing">>,
     <<"s_initializing", "s_initialized">>,
     <<"s_initialized", "s_connected">>,
     <<"s_disconnected", "s_connected">>,
     <<"s_connected", "s_joiner">>,
     <<"s_joiner", "s_initializing">>,
     <<"s_initialized", "s_joined">>,
     <<"s_joiner", "s_joined">>,
     <<"s_joined", "s_synced">>,
     <<"s_synced", "s_donor">>,
     <<"s_donor", "s_joined">>}

\* the two server state diagrams, by what sst_before_init() returns
ServerDiagram(before_init) ==
    IF before_init
    THEN {<<"s_disconnected", "s_connected">>,
          <<"s_connected", "s_joiner">>,
          <<"s_joiner", "s_initializing">>,
          <<"s_initializing", "s_initialized">>,
          <<"s_initialized", "s_joined">>,
          <<"s_joined", "s_synced">>,
          <<"s_synced", "s_donor">>,
          <<"s_donor", "s_joined">>}
    ELSE {<<"s_disconnected", "s_initializing">>,
          <<"s_initializing", "s_initialized">>,
          <<"s_initialized", "s_connected">>,
          <<"s_connected", "s_joiner">>,
          <<"s_joiner", "s_joined">>,
          <<"s_joined", "s_synced">>,
          <<"s_synced", "s_donor">>,
          <<"s_donor", "s_joined">>}

\* server_state::state(lock, state): an edge of the diagram, an edge into
\* disconnecting, or disconnecting to disconnected; any other is an error
server_state_change(cur, new, before_init) ==
    IF \/ <<cur, new>> \in ServerDiagram(before_init)
       \/ new = "s_disconnecting" /\ cur # "s_disconnecting"
       \/ cur = "s_disconnecting" /\ new = "s_disconnected"
    THEN [state |-> new, thrown |-> "none"]
    ELSE [state |-> cur, thrown |-> "Unallowed state transition"]

NoAsk == [from |-> "-", to |-> "-", thrown |-> "none"]
NoRead == [method |-> "-", held |-> FALSE, mutated |-> FALSE]

\* the server as constructed: disconnected, nothing initialized, no waiter
ServerInit ==
    /\ server_state_ = "s_disconnected"
    /\ init_initialized_ = FALSE
    /\ state_waiters_ = [s \in ServerStateSet |-> 0]
    /\ pause_count_ = 0
    /\ server_mutex_ = FALSE
    /\ server_pc = [th \in ServerThreads |-> "idle"]
    /\ waiting = [w \in Waiters |-> "-"]
    /\ asked = NoAsk
    /\ observed = NoRead

\* a client of a server that stays as constructed
Init ==
    /\ ClientInit
    /\ ServerInit
    /\ sst_before_init = FALSE

\* ------------------------------------------------------- call bookkeeping
\* the client and its transaction take the values of record c
Set(c) ==
    /\ state_' = c.state
    /\ mode_' = c.mode
    /\ toi_mode_' = c.toi_mode
    /\ toi_meta_' = c.toi_meta
    /\ current_error_' = c.error
    /\ owning_thread_id_' = c.owner
    /\ current_thread_id_' = c.current
    /\ id_' = c.id
    /\ trx_active' = c.active
    /\ trx_state' = c.trx
    /\ trace' = c.trace
    /\ provider_toi_open' = c.provider_toi_open

\* a client thread enters hook h with argument a
Enter(h, a) ==
    /\ hook' = h
    /\ arg' = a
    /\ pre' = Snapshot

\* the call in progress is the same
Same == UNCHANGED <<hook, arg, pre>>

\* what the next call has to know of the call of hook h that was entered
\* with the client as p and returns r, or leaves by the exception th: open
\* of a fresh client, the close that follows it, a TOI section just entered
\* or left, and the command cycle that before_command opened by cleaning up an aborted
\* transaction, as long as no transaction is started in it
TrailAfter(h, p, r, th) ==
    IF th # "none"
    THEN NoTrail
    ELSE IF h = "open" /\ p.state = "s_none" /\ ~p.active
            /\ p.error = "e_success"
    THEN [last |-> "open", from |-> p.state]
    ELSE IF h = "close" /\ p.trail.last = "open"
    THEN [last |-> "close", from |-> p.trail.from]
    ELSE IF h \in {"enter_toi", "enter_toi_ws_meta"} /\ r = 0
    THEN [last |-> h, from |-> p.mode]
    ELSE IF h = "leave_toi"
    THEN [last |-> h, from |-> p.mode]
    ELSE IF h = "before_command" /\ r = 1 /\ p.state = "s_idle"
            /\ p.active /\ p.trx = "s_aborted"
    THEN [last |-> h, from |-> p.trx]
    ELSE IF h = "after_command_before_result" /\ ~p.active
            /\ p.trail.last = "before_command"
    THEN [last |-> h, from |-> p.trail.from]
    ELSE IF h = "after_command_after_result" /\ ~p.active
            /\ p.trail.last = "after_command_before_result"
    THEN [last |-> h, from |-> p.trail.from]
    ELSE NoTrail

\* the call in progress makes the embedder call op, or touches the client
\* field op, the calling thread holding the mutex or not
Event(op, held) == [op |-> op, held |-> held]

\* client_service_.rollback() and transaction_.after_statement(), called
\* with the mutex as it is
RollbackCall == Event("client_service.rollback", mutex_)
AfterStatementCall == Event("transaction.after_statement", mutex_)

\* the call touches the client fields fs, in this order, without the mutex
Touches(fs) == [i \in DOMAIN fs |-> Event(fs[i], FALSE)]

\* the call (entered by K, or in progress) leaves the client as c and returns
\* r, or leaves by the exception th; the lock guard is gone either way
Returns(K, c, r, th) ==
    /\ K
    /\ Set(c)
    /\ pc' = "returned"
    /\ mutex_' = FALSE
    /\ ret' = r
    /\ thrown' = th
    /\ bf_absorbed' = (/\ hook' = "after_command_before_result"
                       /\ pre'.state = "s_exec"
                       /\ pre'.active
                       /\ pre'.trx = "s_must_abort")
    /\ trail' = TrailAfter(hook', pre', r, th)
    /\ UNCHANGED cfgVars

\* the call leaves the client as c and goes on at p, the mutex held or not
GoesOn(K, c, p, held) ==
    /\ K
    /\ Set(c)
    /\ pc' = p
    /\ mutex_' = held
    /\ UNCHANGED <<ret, thrown, bf_absorbed, trail, cfgVars>>

\* an assertion fails in a build with assertions, in the call entered by K
\* (or in progress): the process is gone
Abort(K) ==
    /\ K
    /\ pc' = "aborted"
    /\ UNCHANGED <<mutex_, ret, thrown, bf_absorbed, trail, trace,
                   provider_toi_open, clientVars, trxVars, cfgVars>>

\* assert(c) passes: always so without assertions (NDEBUG)
Holds(c) == ndebug \/ c

\* the caller has the result
Ack ==
    /\ pc = "returned"
    /\ pc' = "ready"
    /\ hook' = "none"
    /\ arg' = "-"
    /\ pre' = NoCall
    /\ ret' = 0
    /\ thrown' = "none"
    /\ trace' = << >>
    /\ UNCHANGED <<mutex_, bf_absorbed, trail, provider_toi_open,
                   clientVars, trxVars, cfgVars>>

\* ------------------------------------------------------------------ hooks
open(t, id) ==
    /\ pc = "ready"
    /\ LET r == state(state_, "s_idle")
           c == [Snapshot EXCEPT !.owner = t, !.current = t, !.state = r.state]
       IN  Returns(Enter("open", id),
                   IF r.thrown = "none" THEN [c EXCEPT !.id = id] ELSE c,
                   0, r.thrown)

close(t) ==
    /\ pc = "ready"
    /\ LET r == state(state_, "s_quitting")
           K == Enter("close", "-")
       IN  IF ~Holds(t = owning_thread_id_)
           THEN Abort(K)
           ELSE IF r.thrown # "none"
           THEN Returns(K, Snapshot, 0, r.thrown)
           ELSE GoesOn(K, [Snapshot EXCEPT !.state = r.state],
                       "close_unlocked", FALSE)

\* close() that leaves an active transaction alone
close_unlocked_no_rollback ==
    /\ pc = "close_unlocked"
    /\ Returns(Same, Snapshot, 0, "none")

\* lines 35-39: the rollback with the mutex released
close_unlocked ==
    /\ pc = "close_unlocked"
    /\ Returns(Same,
               IF trx_active
               THEN [Snapshot EXCEPT !.trx = ClientServiceRollback(trx_state),
                                     !.trace = Append(@, RollbackCall)]
               ELSE Snapshot,
               0, "none")

\* cleanup() that also resets the current error
cleanup_clears_error(t) ==
    /\ pc = "ready"
    /\ LET r == state(state_, "s_none") IN
       IF ~Holds(t = owning_thread_id_)
       THEN Abort(Enter("cleanup", "-"))
       ELSE Returns(Enter("cleanup", "-"),
                    [Snapshot EXCEPT !.state = r.state,
                                     !.error = IF r.thrown = "none"
                                               THEN "e_success"
                                               ELSE current_error_],
                    0, r.thrown)

cleanup(t) ==
    /\ pc = "ready"
    /\ LET r == state(state_, "s_none") IN
       IF ~Holds(t = owning_thread_id_)
       THEN Abort(Enter("cleanup", "-"))
       ELSE Returns(Enter("cleanup", "-"),
                    [Snapshot EXCEPT !.state = r.state], 0, r.thrown)

\* before_command() that forgets override_error() on both abort paths
before_command_exec_no_override(K, t) ==
    LET r == state(state_, "s_exec")
    IN  IF ~Holds(t = owning_thread_id_)
        THEN Abort(K)
        ELSE IF r.thrown # "none"
        THEN Returns(K, Snapshot, 0, r.thrown)
        ELSE IF trx_active /\ trx_state = "s_must_abort"
        THEN GoesOn(K, [Snapshot EXCEPT !.state = r.state],
                    "before_command_must_abort", FALSE)
        ELSE IF trx_active /\ trx_state = "s_aborted"
        THEN GoesOn(K, [Snapshot EXCEPT !.state = r.state],
                    "before_command_aborted", FALSE)
        ELSE Returns(K, [Snapshot EXCEPT !.state = r.state], 0, "none")

\* before_command(), from the state() call on
before_command_exec(K, t) ==
    LET r == state(state_, "s_exec")
        e == override_error(current_error_, "e_deadlock_error").error
    IN  IF ~Holds(t = owning_thread_id_)
        THEN Abort(K)
        ELSE IF r.thrown # "none"
        THEN Returns(K, Snapshot, 0, r.thrown)
        ELSE IF ~Holds(~trx_active
                       \/ trx_state \in {"s_executing", "s_aborted"}
                       \/ (trx_state = "s_must_abort"
                           /\ rollback_mode_ = "rm_async"))
        THEN Abort(K)
        ELSE IF trx_active /\ trx_state = "s_must_abort"
        THEN IF ~Holds(rollback_mode_ = "rm_async")
             THEN Abort(K)
             ELSE GoesOn(K, [Snapshot EXCEPT !.state = r.state, !.error = e],
                         "before_command_must_abort", FALSE)
        ELSE IF trx_active /\ trx_state = "s_aborted"
        THEN GoesOn(K, [Snapshot EXCEPT !.state = r.state, !.error = e],
                    "before_command_aborted", FALSE)
        ELSE Returns(K, [Snapshot EXCEPT !.state = r.state], 0, "none")

before_command(t) ==
    /\ pc = "ready"
    /\ LET K == Enter("before_command", "-") IN
       IF ~Holds(state_ = "s_idle")
       THEN Abort(K)
       ELSE IF rollback_mode_ = "rm_sync" /\ trx_state = "s_aborting"
       THEN \* lines 73-76: the loop spins with the mutex held, which keeps
            \* the rollbacker from moving the transaction on: no way out
            GoesOn(K, Snapshot, "before_command_wait", TRUE)
       ELSE before_command_exec(K, t)

\* before_command() that rolls back and forgets transaction after_statement()
before_command_must_abort_no_cleanup ==
    /\ pc = "before_command_must_abort"
    /\ Returns(Same,
               [Snapshot EXCEPT !.trx = ClientServiceRollback(trx_state),
                                !.trace = Append(@, RollbackCall)],
               1, "none")

\* lines 93-101: rollback and cleanup with the mutex released
before_command_must_abort ==
    /\ pc = "before_command_must_abort"
    /\ LET rb == ClientServiceRollback(trx_state)
           as == TrxAfterStatement(trx_active, rb, current_error_)
       IN  IF Holds(as.trx = "s_aborted") /\ Holds(~as.active)
              /\ Holds(as.error # "e_success")
           THEN Returns(Same, [Snapshot EXCEPT !.active = as.active,
                                               !.trx = as.trx,
                                               !.error = as.error,
                                               !.trace = @ \o <<RollbackCall, AfterStatementCall>>],
                        1, "none")
           ELSE Abort(Same)

\* before_command() that rolls back a transaction already rolled back
before_command_aborted_rolls_back ==
    /\ pc = "before_command_aborted"
    /\ LET rb == ClientServiceRollback(trx_state)
           as == TrxAfterStatement(trx_active, rb, current_error_)
       IN  IF Holds(~as.active)
           THEN Returns(Same, [Snapshot EXCEPT
                                  !.active = as.active,
                                  !.trx = as.trx,
                                  !.error = as.error,
                                  !.trace = @ \o <<RollbackCall,
                                                   AfterStatementCall>>],
                        1, "none")
           ELSE Abort(Same)

\* lines 110-114: cleanup with the mutex released
before_command_aborted ==
    /\ pc = "before_command_aborted"
    /\ LET as == TrxAfterStatement(trx_active, trx_state, current_error_)
       IN  IF Holds(~as.active)
           THEN Returns(Same, [Snapshot EXCEPT !.active = as.active,
                                               !.trx = as.trx,
                                               !.error = as.error,
                                               !.trace = Append(@, AfterStatementCall)],
                        1, "none")
           ELSE Abort(Same)

\* after_command_before_result(), from the state() call on, the client being c
after_command_before_result_leave(K, c) ==
    LET r == state(c.state, "s_result") IN
    Returns(K, [c EXCEPT !.state = r.state], 0, r.thrown)

\* after_command_before_result() that forgets override_error()
after_command_before_result_no_override(t) ==
    /\ pc = "ready"
    /\ LET K == Enter("after_command_before_result", "-")
       IN  IF ~Holds(state_ = "s_exec")
           THEN Abort(K)
           ELSE IF ~Holds(t = owning_thread_id_)
           THEN Abort(K)
           ELSE IF trx_active /\ trx_state = "s_must_abort"
           THEN GoesOn(K, Snapshot,
                       "after_command_before_result_must_abort", FALSE)
           ELSE after_command_before_result_leave(K, Snapshot)

after_command_before_result(t) ==
    /\ pc = "ready"
    /\ LET K == Enter("after_command_before_result", "-")
           e == override_error(current_error_, "e_deadlock_error").error
       IN  IF ~Holds(state_ = "s_exec")
           THEN Abort(K)
           ELSE IF ~Holds(t = owning_thread_id_)
           THEN Abort(K)
           ELSE IF trx_active /\ trx_state = "s_must_abort"
           THEN GoesOn(K, [Snapshot EXCEPT !.error = e],
                       "after_command_before_result_must_abort", FALSE)
           ELSE after_command_before_result_leave(K, Snapshot)

\* after_command_before_result() that rolls back and forgets transaction
\* after_statement()
after_command_before_result_must_abort_no_cleanup ==
    /\ pc = "after_command_before_result_must_abort"
    /\ after_command_before_result_leave(
           Same, [Snapshot EXCEPT !.trx = ClientServiceRollback(trx_state),
                                  !.trace = Append(@, RollbackCall)])

\* lines 131-137: rollback and cleanup with the mutex released, then result
after_command_before_result_must_abort ==
    /\ pc = "after_command_before_result_must_abort"
    /\ LET rb == ClientServiceRollback(trx_state)
           as == TrxAfterStatement(trx_active, rb, current_error_)
       IN  IF Holds(as.trx = "s_aborted") /\ Holds(as.error # "e_success")
           THEN after_command_before_result_leave(
                    Same,
                    [Snapshot EXCEPT !.active = as.active, !.trx = as.trx,
                                     !.error = as.error,
                                     !.trace = @ \o <<RollbackCall, AfterStatementCall>>])
           ELSE Abort(Same)

\* after_command_after_result(), from the state() call on, the client being c
after_command_after_result_leave(K, c) ==
    LET r == state(c.state, "s_idle") IN
    Returns(K, [c EXCEPT !.state = r.state], 0, r.thrown)

\* after_command_after_result() that clears the error whether or not a
\* transaction is active
after_command_after_result_clears(t) ==
    /\ pc = "ready"
    /\ LET K == Enter("after_command_after_result", "-") IN
       IF ~(Holds(state_ = "s_result") /\ Holds(trx_state # "s_aborting")
            /\ Holds(t = owning_thread_id_))
       THEN Abort(K)
       ELSE IF trx_active /\ trx_state = "s_must_abort"
       THEN GoesOn(K, Snapshot, "after_command_after_result_must_abort", FALSE)
       ELSE after_command_after_result_leave(
                K, [Snapshot EXCEPT !.error = "e_success"])

after_command_after_result(t) ==
    /\ pc = "ready"
    /\ LET K == Enter("after_command_after_result", "-") IN
       IF ~(Holds(state_ = "s_result") /\ Holds(trx_state # "s_aborting")
            /\ Holds(t = owning_thread_id_))
       THEN Abort(K)
       ELSE IF trx_active /\ trx_state = "s_must_abort"
       THEN GoesOn(K, Snapshot, "after_command_after_result_must_abort", FALSE)
       ELSE IF trx_active = FALSE
       THEN after_command_after_result_leave(
                K, [Snapshot EXCEPT !.error = "e_success"])
       ELSE after_command_after_result_leave(K, Snapshot)

\* after_command_after_result() that cleans the transaction up after the
\* rollback, as before_command() does
after_command_after_result_must_abort_cleans_up ==
    /\ pc = "after_command_after_result_must_abort"
    /\ LET rb == ClientServiceRollback(trx_state)
           as == TrxAfterStatement(trx_active, rb, current_error_)
           e == override_error(as.error, "e_deadlock_error").error
       IN  IF Holds(rb = "s_aborted")
           THEN after_command_after_result_leave(
                    Same, [Snapshot EXCEPT !.active = as.active,
                                           !.trx = as.trx, !.error = e,
                                           !.trace = @ \o <<RollbackCall,
                                                            AfterStatementCall>>])
           ELSE Abort(Same)

\* lines 151-160: rollback with the mutex released, then the error and idle
after_command_after_result_must_abort ==
    /\ pc = "after_command_after_result_must_abort"
    /\ LET rb == ClientServiceRollback(trx_state)
           e == override_error(current_error_, "e_deadlock_error").error
       IN  IF Holds(rb = "s_aborted")
           THEN after_command_after_result_leave(
                    Same, [Snapshot EXCEPT !.trx = rb, !.error = e,
                                           !.trace = Append(@, RollbackCall)])
           ELSE Abort(Same)

\* before_statement() that does the rollback itself
before_statement_rolls_back(t) ==
    /\ pc = "ready"
    /\ IF trx_active /\ trx_state = "s_must_abort"
       THEN Returns(Enter("before_statement", "-"),
                    [Snapshot EXCEPT !.trx = ClientServiceRollback(trx_state),
                                     !.error = "e_deadlock_error"],
                    1, "none")
       ELSE Returns(Enter("before_statement", "-"), Snapshot, 0, "none")

before_statement(t) ==
    /\ pc = "ready"
    /\ Returns(Enter("before_statement", "-"), Snapshot,
               IF trx_active /\ trx_state = "s_must_abort" THEN 1 ELSE 0,
               "none")

\* after_statement() that does not ask for autocommit
after_statement_any_commit(t, autocommit) ==
    /\ pc = "ready"
    /\ LET as == TrxAfterStatement(trx_active, trx_state, current_error_) IN
       IF ~Holds(state_ = "s_exec")
       THEN Abort(Enter("after_statement", autocommit))
       ELSE Returns(Enter("after_statement", autocommit),
                    [Snapshot EXCEPT
                        !.active = as.active, !.trx = as.trx,
                        !.error = as.error,
                        !.trace =
                            Touches(IF ndebug THEN << >> ELSE <<"state_">>)
                            \o <<AfterStatementCall>>
                            \o Touches(IF as.error = "e_deadlock_error"
                                       THEN <<"current_error_", "mode_">>
                                       ELSE <<"current_error_">>)],
                    IF as.error = "e_deadlock_error"
                    THEN IF mode_ = "m_replicating"
                         THEN "asr_may_retry"
                         ELSE "asr_error"
                    ELSE "asr_success",
                    "none")

\* after_statement() that reports every error, not the deadlock alone
after_statement_any_error(t, autocommit) ==
    /\ pc = "ready"
    /\ LET as == TrxAfterStatement(trx_active, trx_state, current_error_) IN
       IF ~Holds(state_ = "s_exec")
       THEN Abort(Enter("after_statement", autocommit))
       ELSE Returns(Enter("after_statement", autocommit),
                    [Snapshot EXCEPT
                        !.active = as.active, !.trx = as.trx,
                        !.error = as.error,
                        !.trace =
                            Touches(IF ndebug THEN << >> ELSE <<"state_">>)
                            \o <<AfterStatementCall>>
                            \o Touches(IF as.error = "e_deadlock_error"
                                       THEN <<"current_error_", "mode_">>
                                       ELSE <<"current_error_">>)],
                    IF as.error = "e_deadlock_error"
                    THEN IF mode_ = "m_replicating" /\ autocommit
                         THEN "asr_may_retry"
                         ELSE "asr_error"
                    ELSE IF as.error # "e_success"
                    THEN "asr_error"
                    ELSE "asr_success",
                    "none")

\* after_statement() does not take the mutex; autocommit is what
\* client_service_.is_autocommit() answers
after_statement(t, autocommit) ==
    /\ pc = "ready"
    /\ LET as == TrxAfterStatement(trx_active, trx_state, current_error_) IN
       IF ~Holds(state_ = "s_exec")
       THEN Abort(Enter("after_statement", autocommit))
       ELSE Returns(Enter("after_statement", autocommit),
                    [Snapshot EXCEPT
                        !.active = as.active, !.trx = as.trx,
                        !.error = as.error,
                        !.trace =
                            Touches(IF ndebug THEN << >> ELSE <<"state_">>)
                            \o <<AfterStatementCall>>
                            \o Touches(IF as.error = "e_deadlock_error"
                                       THEN <<"current_error_", "mode_">>
                                       ELSE <<"current_error_">>)],
                    IF as.error = "e_deadlock_error"
                    THEN IF mode_ = "m_replicating" /\ autocommit
                         THEN "asr_may_retry"
                         ELSE "asr_error"
                    ELSE "asr_success",
                    "none")

\* a caller (the transaction, the embedder) overrides the current error
OverrideError(t, error) ==
    /\ pc = "ready"
    /\ LET r == override_error(current_error_, error) IN
       IF ~Holds(t = owning_thread_id_)
       THEN Abort(Enter("override_error", error))
       ELSE Returns(Enter("override_error", error),
                    [Snapshot EXCEPT !.error = r.error], 0, r.thrown)

\* enter_toi(keys, buffer, flags) that saves the mode before it asks for the
\* provider
enter_toi_saves_mode_first(t, status) ==
    /\ pc = "ready"
    /\ LET K == Enter("enter_toi", status)
           m == mode(mode_, "m_toi")
           e == override_error(current_error_, "e_error_during_commit")
           asserted == Touches(IF ndebug THEN << >>
                                        ELSE <<"state_", "mode_">>)
           call == Event("provider.enter_toi", mutex_)
       IN  IF ~(Holds(state_ = "s_exec") /\ Holds(mode_ = "m_replicating"))
           THEN Abort(K)
           ELSE IF status = "success" /\ provider_
                   /\ provider_toi_open >= MaxToiOpen
           THEN FALSE
           ELSE IF ~provider_
           THEN Returns(K, [Snapshot EXCEPT !.toi_mode = mode_,
                                            !.trace = asserted],
                        0, "provider not loaded")
           ELSE IF status = "success"
           THEN Returns(K, [Snapshot EXCEPT
                               !.toi_meta = "set",
                               !.toi_mode = mode_,
                               !.mode = m.mode,
                               !.provider_toi_open = @ + 1,
                               !.trace = asserted \o <<call>>],
                        0, m.thrown)
           ELSE IF ~Holds(t = owning_thread_id_)
           THEN Abort(K)
           ELSE Returns(K, [Snapshot EXCEPT
                               !.error = e.error,
                               !.trace = asserted \o <<call>>
                                         \o Touches(<<"current_error_">>)],
                        1, e.thrown)

\* enter_toi(keys, buffer, flags): through the provider, which answers status
enter_toi(t, status) ==
    /\ pc = "ready"
    /\ LET K == Enter("enter_toi", status)
           m == mode(mode_, "m_toi")
           e == override_error(current_error_, "e_error_during_commit")
           \* lines 244-246: the assertions and the provider call come
           \* before any lock is taken
           asserted == Touches(IF ndebug THEN << >>
                                        ELSE <<"state_", "mode_">>)
           call == Event("provider.enter_toi", mutex_)
       IN  IF ~(Holds(state_ = "s_exec") /\ Holds(mode_ = "m_replicating"))
           THEN Abort(K)
           ELSE IF status = "success" /\ provider_
                   /\ provider_toi_open >= MaxToiOpen
           THEN FALSE
           ELSE IF ~provider_
           THEN Returns(K, [Snapshot EXCEPT !.trace = asserted],
                        0, "provider not loaded")
           ELSE IF status = "success"
           THEN Returns(K, [Snapshot EXCEPT
                               !.toi_meta = "set",
                               !.toi_mode = mode_,
                               !.mode = m.mode,
                               !.provider_toi_open = @ + 1,
                               !.trace = asserted \o <<call>>],
                        0, m.thrown)
           ELSE IF ~Holds(t = owning_thread_id_)
           THEN Abort(K)
           ELSE Returns(K, [Snapshot EXCEPT
                               !.error = e.error,
                               !.trace = asserted \o <<call>>
                                         \o Touches(<<"current_error_">>)],
                        1, e.thrown)

\* enter_toi(ws_meta) that goes through the provider as the other overload
enter_toi_ws_meta_via_provider(t) ==
    /\ pc = "ready"
    /\ LET m == mode(mode_, "m_toi")
           c == [Snapshot EXCEPT
                    !.toi_mode = mode_, !.mode = m.mode,
                    !.trace = <<Event("provider.enter_toi", mutex_)>>]
       IN  IF ~Holds(mode_ = "m_high_priority")
           THEN Abort(Enter("enter_toi_ws_meta", "-"))
           ELSE Returns(Enter("enter_toi_ws_meta", "-"),
                        IF m.thrown = "none"
                        THEN [c EXCEPT !.toi_meta = "set"] ELSE c,
                        0, m.thrown)

\* enter_toi(ws_meta): local entry of a high-priority applier
enter_toi_ws_meta(t) ==
    /\ pc = "ready"
    /\ LET m == mode(mode_, "m_toi")
           c == [Snapshot EXCEPT !.toi_mode = mode_, !.mode = m.mode]
       IN  IF ~Holds(mode_ = "m_high_priority")
           THEN Abort(Enter("enter_toi_ws_meta", "-"))
           ELSE Returns(Enter("enter_toi_ws_meta", "-"),
                        IF m.thrown = "none"
                        THEN [c EXCEPT !.toi_meta = "set"] ELSE c,
                        0, m.thrown)

\* leave_toi() that goes back to replicating mode whatever mode was saved
leave_toi_restore_replicating(K, e, rv) ==
    LET m == mode(mode_, "m_replicating")
        c == [Snapshot EXCEPT !.error = e, !.mode = m.mode]
    IN  Returns(K,
                IF m.thrown = "none"
                THEN [c EXCEPT !.toi_mode = "m_local", !.toi_meta = "undefined"]
                ELSE c,
                rv, m.thrown)

\* leave_toi(), from the lock on; e is the current error by then and rv what
\* ret holds
leave_toi_restore(K, e, rv) ==
    LET m == mode(mode_, toi_mode_)
        call == Event("provider.leave_toi", mutex_)
        c == [Snapshot EXCEPT
                 !.error = e, !.mode = m.mode,
                 !.provider_toi_open =
                     IF toi_mode_ = "m_replicating" THEN @ - 1 ELSE @,
                 !.trace =
                     Touches(<<"toi_mode_">>)
                     \o (IF toi_mode_ = "m_replicating"
                         THEN <<call>> ELSE << >>)
                     \o Touches(IF rv = 1 /\ toi_mode_ = "m_replicating"
                                THEN <<"current_error_">> ELSE << >>)]
    IN  Returns(K,
                IF m.thrown = "none"
                THEN [c EXCEPT !.toi_mode = "m_local", !.toi_meta = "undefined"]
                ELSE c,
                rv, m.thrown)

\* leave_toi() that has nothing to do, and says nothing, when no mode is saved
leave_toi_tolerant(t, status) ==
    /\ pc = "ready"
    /\ LET K == Enter("leave_toi", status)
           e == override_error(current_error_, "e_error_during_commit")
       IN  IF toi_mode_ = "m_local"
           THEN Returns(K, [Snapshot EXCEPT !.trace = Touches(<<"toi_mode_">>)],
                        0, "none")
           ELSE IF toi_mode_ = "m_replicating" /\ provider_
              /\ provider_toi_open <= -MaxToiOpen
           THEN FALSE
           ELSE IF toi_mode_ = "m_replicating"
           THEN IF ~provider_
                THEN Returns(K, [Snapshot EXCEPT
                                    !.trace = Touches(<<"toi_mode_">>)],
                             0, "provider not loaded")
                ELSE IF status = "success"
                THEN leave_toi_restore(K, current_error_, 0)
                ELSE IF ~ndebug \/ ~Holds(t = owning_thread_id_)
                THEN Abort(K)
                ELSE leave_toi_restore(K, e.error, 1)
           ELSE \E rv \in {0, 1} : leave_toi_restore(K, current_error_, rv)

\* leave_toi(): ret is set only on the provider's path, and is anything
\* otherwise
leave_toi(t, status) ==
    /\ pc = "ready"
    /\ LET K == Enter("leave_toi", status)
           e == override_error(current_error_, "e_error_during_commit")
       IN  IF toi_mode_ = "m_replicating" /\ provider_
              /\ provider_toi_open <= -MaxToiOpen
           THEN FALSE
           ELSE IF toi_mode_ = "m_replicating"
           THEN IF ~provider_
                THEN Returns(K, [Snapshot EXCEPT
                                    !.trace = Touches(<<"toi_mode_">>)],
                             0, "provider not loaded")
                ELSE IF status = "success"
                THEN leave_toi_restore(K, current_error_, 0)
                ELSE IF ~ndebug \/ ~Holds(t = owning_thread_id_)
                THEN Abort(K)
                ELSE leave_toi_restore(K, e.error, 1)
           ELSE \E rv \in {0, 1} : leave_toi_restore(K, current_error_, rv)

\* ------------------------------------------------- the session's statement
\* the statement starts a transaction
start_transaction ==
    /\ pc = "ready"
    /\ state_ = "s_exec"
    /\ ~trx_active
    /\ trx_active' = TRUE
    /\ trx_state' = "s_executing"
    /\ UNCHANGED <<clientVars, cfgVars, callVars>>

\* the statement commits the transaction
commit ==
    /\ pc = "ready"
    /\ state_ = "s_exec"
    /\ trx_active
    /\ trx_state = "s_executing"
    /\ trx_state' = "s_committed"
    /\ UNCHANGED <<clientVars, trx_active, cfgVars, callVars>>

\* ----------------------------------------------------- the other threads
\* a remote high-priority applier marks the local transaction for abort; in
\* synchronous rollback mode the transaction of an idle session is handed to
\* the background rollbacker instead, so a hook sees must-abort between
\* commands in asynchronous mode only
bf_abort ==
    /\ pc \notin {"returned", "aborted"}
    /\ ~mutex_
    /\ trx_active
    /\ trx_state = "s_executing"
    /\ trx_state' = IF rollback_mode_ = "rm_sync" /\ state_ = "s_idle"
                    THEN "s_aborting" ELSE "s_must_abort"
    /\ UNCHANGED <<clientVars, trx_active, cfgVars, callVars>>

\* synchronous rollback mode: the background rollbacker finishes the rollback
background_rollback ==
    /\ pc \notin {"returned", "aborted"}
    /\ ~mutex_
    /\ rollback_mode_ = "rm_sync"
    /\ trx_active
    /\ trx_state = "s_aborting"
    /\ trx_state' = "s_aborted"
    /\ UNCHANGED <<clientVars, trx_active, cfgVars, callVars>>

\* ------------------------------------------------- server: bookkeeping
\* the server as a record
ServerSnapshot ==
    [state |-> server_state_, initialized |-> init_initialized_,
     waiters |-> state_waiters_, pause_count |-> pause_count_,
     mutex |-> server_mutex_, pc |-> server_pc, waiting |-> waiting,
     asked |-> asked, observed |-> observed]

\* what a step of the server leaves alone
clientSide == <<clientVars, trxVars, callVars, rollback_mode_, provider_,
                ndebug>>

\* the server takes the values of record c
ServerSet(c) ==
    /\ server_state_' = c.state
    /\ init_initialized_' = c.initialized
    /\ state_waiters_' = c.waiters
    /\ pause_count_' = c.pause_count
    /\ server_mutex_' = c.mutex
    /\ server_pc' = c.pc
    /\ waiting' = c.waiting
    /\ asked' = c.asked
    /\ observed' = c.observed
    /\ UNCHANGED <<sst_before_init, clientSide>>

\* an assertion of the server fails in a build with assertions: the process
\* is gone, its sessions with it
ServerAbort ==
    /\ pc' = "aborted"
    /\ UNCHANGED <<mutex_, hook, arg, pre, ret, thrown, bf_absorbed, trail,
                   trace, provider_toi_open, clientVars, trxVars, cfgVars>>

\* thread th is at p, and the process is there
At(th, p) == pc # "aborted" /\ server_pc[th] = p

\* thread th locks the server mutex at p
Locks(th, p) == At(th, p) /\ ~server_mutex_

\* the server c after state(lock, new), the call recorded
Moved(c, new) ==
    LET r == server_state_change(c.state, new, sst_before_init) IN
    [c EXCEPT !.state = r.state,
              !.asked = [from |-> c.state, to |-> new, thrown |-> r.thrown]]

\* thread th has returned and the lock guard is gone
Back(c, th) == [c EXCEPT !.pc[th] = "idle", !.mutex = FALSE]

\* thread th goes to sleep in wait_until_state(lock, s), at p
Sleeps(c, th, s, p) ==
    [c EXCEPT !.waiters[s] = @ + 1, !.pc[th] = p, !.mutex = FALSE]

\* ------------------------------------------ server: the provider's thread
ViewStatus == {"primary", "non_primary", "disconnected"}
ViewPc == [primary |-> "on_view_primary",
           non_primary |-> "on_view_non_primary",
           disconnected |-> "on_view_disconnected"]

\* on_view(view, applier): the view is stored under the mutex
on_view(status) ==
    /\ Locks("provider", "idle")
    /\ ServerSet([ServerSnapshot EXCEPT !.mutex = TRUE,
                                        !.pc["provider"] = ViewPc[status]])

\* on_view(), the view stored: a primary view with this server in it takes a
\* disconnected or initialized server to connected, a non-primary view shifts
\* towards disconnecting, the final view ends in disconnected
on_view_stored ==
    /\ pc # "aborted"
    /\ \E status \in ViewStatus : server_pc["provider"] = ViewPc[status]
    /\ LET c == Back(ServerSnapshot, "provider")
           at == server_pc["provider"]
       IN  IF at = "on_view_primary"
           THEN IF c.state \in {"s_disconnected", "s_initialized"}
                THEN ServerSet(Moved(c, "s_connected"))
                ELSE ServerSet(c)
           ELSE IF at = "on_view_non_primary"
           THEN IF c.state \notin {"s_disconnected", "s_disconnecting"}
                THEN ServerSet(Moved(c, "s_disconnecting"))
                ELSE ServerSet(c)
           ELSE IF c.state # "s_disconnected"
           THEN ServerSet(Moved(c, "s_disconnected"))
           ELSE ServerSet(c)

\* on_connect(gtid): the connected GTID is stored under the mutex
on_connect ==
    /\ Locks("provider", "idle")
    /\ ServerSet([ServerSnapshot EXCEPT !.mutex = TRUE,
                                        !.pc["provider"] = "on_connect"])

on_connect_stored ==
    /\ At("provider", "on_connect")
    /\ ServerSet(Back(ServerSnapshot, "provider"))

\* on_sync(): asserts joined or donor, and goes to synced
on_sync ==
    /\ Locks("provider", "idle")
    /\ IF ~Holds(server_state_ \in {"s_joined", "s_donor"})
       THEN ServerAbort
       ELSE ServerSet(Moved(ServerSnapshot, "s_synced"))

\* ------------------------------------------ server: the embedder's threads
\* pause(): the first pause asks the provider and stores the sequence number
pause ==
    /\ Locks("embedder", "idle")
    /\ pause_count_ < MaxPause
    /\ ServerSet([ServerSnapshot EXCEPT !.mutex = TRUE,
                                        !.pc["embedder"] = "pause"])

pause_stored ==
    /\ At("embedder", "pause")
    /\ ServerSet([Back(ServerSnapshot, "embedder")
                     EXCEPT !.pause_count = @ + 1])

\* resume(): the last resume asks the provider
resume ==
    /\ Locks("embedder", "idle")
    /\ pause_count_ > 0
    /\ ServerSet([ServerSnapshot EXCEPT !.pause_count = @ - 1])

\* prepare_for_sst(): the request is ready and the server a joiner
prepare_for_sst ==
    /\ Locks("joiner", "idle")
    /\ ServerSet(Moved(ServerSnapshot, "s_joiner"))

\* start_sst(request, gtid, bypass): the server becomes a donor
start_sst ==
    /\ Locks("embedder", "idle")
    /\ ServerSet(Moved(ServerSnapshot, "s_donor"))

\* sst_sent(gtid, error): the donor is back in joined
sst_sent ==
    /\ Locks("embedder", "idle")
    /\ ServerSet(Moved(ServerSnapshot, "s_joined"))

\* sst_received(gtid, error): if the DBMS has not been initialized, shifts to
\* initializing and waits for the initialization; then joined
sst_received ==
    /\ Locks("joiner", "idle")
    /\ LET c == Moved(ServerSnapshot, "s_initializing") IN
       IF init_initialized_
       THEN ServerSet(Moved(ServerSnapshot, "s_joined"))
       ELSE IF c.asked.thrown # "none"
       THEN ServerSet(c)
       ELSE ServerSet(Sleeps(c, "joiner", "s_initialized", "wait_initialized"))

\* sst_received(), woken up in initialized
sst_received_initialized ==
    /\ Locks("joiner", "wait_initialized")
    /\ server_state_ = "s_initialized"
    /\ ServerSet(Moved(Back([ServerSnapshot EXCEPT
                                !.waiters["s_initialized"] = @ - 1],
                            "joiner"),
                       "s_joined"))

\* initialized(): initializing to initialized; a server that is not
\* initializing yet (SST after the initialization) goes there first
initialized ==
    /\ Locks("embedder", "idle")
    /\ LET c == Moved(ServerSnapshot, "s_initializing") IN
       IF server_state_ = "s_initializing"
       THEN ServerSet([Moved(ServerSnapshot, "s_initialized")
                          EXCEPT !.initialized = TRUE])
       ELSE IF c.asked.thrown # "none"
       THEN ServerSet(c)
       ELSE ServerSet([c EXCEPT !.mutex = TRUE,
                                !.pc["embedder"] = "initialized"])

initialized_done ==
    /\ At("embedder", "initialized")
    /\ ServerSet([Back(Moved(ServerSnapshot, "s_initialized"), "embedder")
                     EXCEPT !.initialized = TRUE])

\* disconnect(): to disconnecting, then waits for disconnected
disconnect ==
    /\ Locks("disconnecter", "idle")
    /\ LET c == Moved(ServerSnapshot, "s_disconnecting") IN
       IF c.asked.thrown # "none"
       THEN ServerSet(c)
       ELSE ServerSet(Sleeps(c, "disconnecter", "s_disconnected",
                             "wait_disconnected"))

\* disconnect(), woken up in disconnected
disconnect_disconnected ==
    /\ Locks("disconnecter", "wait_disconnected")
    /\ server_state_ = "s_disconnected"
    /\ ServerSet(Back([ServerSnapshot EXCEPT
                          !.waiters["s_disconnected"] = @ - 1],
                      "disconnecter"))

\* wait_until_state(state): counts itself in and sleeps while the server is
\* in another state
wait_until_state(w, s) ==
    /\ pc # "aborted"
    /\ ~server_mutex_
    /\ waiting[w] = "-"
    /\ IF server_state_ = s
       THEN ServerSet(ServerSnapshot)
       ELSE ServerSet([ServerSnapshot EXCEPT !.waiters[s] = @ + 1,
                                             !.waiting[w] = s])

\* wait_until_state(), woken up: it returns in the state it waits for and
\* in no other
wait_until_state_woken(w) ==
    /\ pc # "aborted"
    /\ ~server_mutex_
    /\ waiting[w] # "-"
    /\ server_state_ = waiting[w]
    /\ ServerSet([ServerSnapshot EXCEPT !.waiters[waiting[w]] = @ - 1,
                                        !.waiting[w] = "-"])

\* ------------------------------------------------- server: the getters
\* the field is being written by the thread that holds the mutex
Mutated(field) ==
    \/ field = "connected_gtid_" /\ server_pc["provider"] = "on_connect"
    \/ field = "current_view_"
       /\ \E status \in ViewStatus : server_pc["provider"] = ViewPc[status]
    \/ field = "pause_seqno_" /\ server_pc["embedder"] = "pause"
                              /\ pause_count_ = 0
    \/ field \in {"state_", "init_initialized_"}
       /\ server_pc["embedder"] = "initialized"

\* a getter reads the field, with the mutex locked by itself or not at all
Reads(method, field, locks) ==
    /\ pc # "aborted"
    /\ locks => ~server_mutex_
    /\ ServerSet([ServerSnapshot EXCEPT
                     !.observed = [method |-> method, held |-> locks,
                                   mutated |-> Mutated(field)]])

connected_gtid == Reads("connected_gtid", "connected_gtid_", FALSE)
current_view == Reads("current_view", "current_view_", FALSE)
pause_seqno == Reads("pause_seqno", "pause_seqno_", FALSE)
is_initialized == Reads("is_initialized", "init_initialized_", TRUE)
server_state == Reads("state", "state_", TRUE)
last_committed_gtid == Reads("last_committed_gtid", "last_committed_gtid_", TRUE)

\* ---------------------------------------------------------------- claims
\* the call of hook h has just returned (by return or by an exception)
Returned(h) == pc = "returned" /\ hook = h

\* the transaction was active and marked for abort when the call was entered
MustAbortAtEntry == pre.active /\ pre.trx = "s_must_abort"

\* the edges of the lifecycle the specification permits
PermittedEdges ==
    {<<"s_none", "s_idle">>, <<"s_idle", "s_exec">>, <<"s_idle", "s_quitting">>,
     <<"s_exec", "s_result">>, <<"s_result", "s_idle">>,
     <<"s_quitting", "s_none">>}

\* the state each lifecycle hook asks state() for
Target ==
    [h \in {"open", "before_command", "after_command_before_result",
            "after_command_after_result", "close", "cleanup"} |->
        CASE h = "open" -> "s_idle"
          [] h = "before_command" -> "s_exec"
          [] h = "after_command_before_result" -> "s_result"
          [] h = "after_command_after_result" -> "s_idle"
          [] h = "close" -> "s_quitting"
          [] h = "cleanup" -> "s_none"]

\* C1: whatever hooks are called, in whatever order, every change of the
\* lifecycle state is one of the six permitted edges.
C1_StateChangesPermitted ==
    [][state_' # state_ => <<state_, state_'>> \in PermittedEdges]_vars

\* C1 witness: a command cycle has come back to idle along result->idle.
C1_Witness ==
    /\ Returned("after_command_after_result")
    /\ pre.state = "s_result"
    /\ state_ = "s_idle"

\* the hooks that assert the lifecycle state they are entered in
AssertingHooks ==
    {"before_command", "after_command_before_result",
     "after_command_after_result"}

\* a lifecycle hook was called in a state from which the matrix does not
\* have the transition the hook makes, and the call is over
IllegalAttempt ==
    /\ pc \in {"returned", "aborted"}
    /\ hook \in DOMAIN Target
    /\ <<pre.state, Target[hook]>> \notin PermittedEdges

\* C2 as claimed: every such call leaves by the 'Unallowed state transition'
\* error with the lifecycle state as it was.
C2_Original ==
    IllegalAttempt
    => (thrown = "Unallowed state transition" /\ state_ = pre.state)

\* C2 as amended: the lifecycle state is as it was, the attempt is neither
\* ignored nor applied; the call leaves by the 'Unallowed state transition'
\* error, except that a build with assertions stops at a failed assertion
\* instead, which it always does in the three hooks that assert their state
\* of entry and never does in open.
C2_IllegalTransitionFatal ==
    IllegalAttempt
    => /\ state_ = pre.state
       /\ pc = "returned" => thrown = "Unallowed state transition"
       /\ pc = "aborted" => ~ndebug
       /\ (~ndebug /\ hook \in AssertingHooks) => pc = "aborted"
       /\ hook = "open" => pc = "returned"

\* C2 witness: cleanup while idle was rejected.
C2_Witness ==
    /\ Returned("cleanup")
    /\ pre.state = "s_idle"
    /\ thrown = "Unallowed state transition"
    /\ state_ = "s_idle"

\* the mode changes the specification permits
PermittedModeEdges ==
    {<<"m_replicating", "m_high_priority">>, <<"m_high_priority", "m_replicating">>,
     <<"m_replicating", "m_toi">>, <<"m_toi", "m_replicating">>,
     <<"m_high_priority", "m_toi">>, <<"m_toi", "m_high_priority">>}

\* the mode the returned call asked mode() for, "-" if it did not get there
ModeAsked ==
    IF hook = "enter_toi"
    THEN IF thrown # "provider not loaded" /\ arg = "success"
         THEN "m_toi" ELSE "-"
    ELSE IF hook = "enter_toi_ws_meta"
    THEN "m_toi"
    ELSE IF hook = "leave_toi"
    THEN IF thrown # "provider not loaded" THEN pre.toi_mode ELSE "-"
    ELSE "-"

\* a mode transition outside the table was rejected and changed nothing
ModeRejected ==
    (/\ pc = "returned"
     /\ ModeAsked # "-"
     /\ <<pre.mode, ModeAsked>> \notin PermittedModeEdges)
    => (thrown = "Unallowed mode transition" /\ mode_ = pre.mode)

\* C3: every change of the mode is one of the six permitted ones, so local
\* mode is never left and never entered; a call that asks for any other
\* transition leaves by 'Unallowed mode transition' with the mode unchanged.
C3_ModeChangesPermitted ==
    [][/\ mode_' # mode_ => <<mode_, mode_'>> \in PermittedModeEdges
       /\ ModeRejected']_vars

\* C3 witness: leave_toi outside a TOI section asked for local mode and was
\* rejected.
C3_Witness ==
    /\ Returned("leave_toi")
    /\ pre.mode = "m_replicating"
    /\ pre.toi_mode = "m_local"
    /\ thrown = "Unallowed mode transition"
    /\ mode_ = "m_replicating"

\* C4: before_command entered in idle leaves the session in executing; with
\* an active transaction in must-abort it returns 1, the error is deadlock
\* and the transaction is aborted and no longer active; with no active
\* transaction, or one that is executing, it returns 0.
C4_BeforeCommand ==
    (Returned("before_command") /\ pre.state = "s_idle")
    => /\ thrown = "none"
       /\ state_ = "s_exec"
       /\ MustAbortAtEntry
          => /\ ret = 1
             /\ current_error_ = "e_deadlock_error"
             /\ trx_state = "s_aborted"
             /\ ~trx_active
       /\ (~pre.active \/ pre.trx = "s_executing") => ret = 0

\* C4 witness: before_command has absorbed a brute-force abort that came
\* while the session was idle.
C4_Witness ==
    /\ Returned("before_command")
    /\ pre.state = "s_idle"
    /\ MustAbortAtEntry
    /\ rollback_mode_ = "rm_async"
    /\ ret = 1

\* C5: after_command_before_result entered in executing leaves the session
\* in result; with an active transaction in must-abort at entry the
\* transaction is aborted and the error is deadlock on return; otherwise
\* the error and the transaction are as they were.
C5_AfterCommandBeforeResult ==
    (Returned("after_command_before_result") /\ pre.state = "s_exec")
    => /\ thrown = "none"
       /\ state_ = "s_result"
       /\ MustAbortAtEntry
          => (trx_state = "s_aborted" /\ current_error_ = "e_deadlock_error")
       /\ ~MustAbortAtEntry
          => /\ current_error_ = pre.error
             /\ trx_active = pre.active
             /\ trx_state = pre.trx

\* C5 witness: the hook has rolled back a transaction marked during the
\* command.
C5_Witness ==
    /\ Returned("after_command_before_result")
    /\ pre.state = "s_exec"
    /\ MustAbortAtEntry
    /\ pre.error = "e_success"
    /\ state_ = "s_result"

\* C6: after_command_after_result entered in result leaves the session in
\* idle; an active transaction in must-abort is rolled back and the error
\* becomes deadlock; the error is reset to success exactly when no
\* transaction is active; in every other case the error is as it was.
C6_AfterCommandAfterResult ==
    (Returned("after_command_after_result") /\ pre.state = "s_result")
    => /\ thrown = "none"
       /\ state_ = "s_idle"
       /\ MustAbortAtEntry
          => (trx_state = "s_aborted" /\ current_error_ = "e_deadlock_error")
       /\ ~pre.active => current_error_ = "e_success"
       /\ (pre.active /\ pre.trx # "s_must_abort")
          => current_error_ = pre.error

\* C6 witness: an error that came with a still active transaction has
\* survived the hook.
C6_Witness ==
    /\ Returned("after_command_after_result")
    /\ pre.state = "s_result"
    /\ pre.active
    /\ pre.trx = "s_executing"
    /\ pre.error = "e_size_exceeded_error"
    /\ current_error_ = "e_size_exceeded_error"
    /\ state_ = "s_idle"

\* C7 as claimed: after_command_after_result, called right after
\* after_command_before_result has absorbed a brute-force abort that came
\* during the command, leaves the session idle with the error still deadlock.
C7_Original ==
    (Returned("after_command_after_result") /\ pre.bf_absorbed)
    => (state_ = "s_idle" /\ current_error_ = "e_deadlock_error")

\* C7 as amended: after_command_before_result leaves the session in result
\* with the error deadlock and the transaction cleaned up; the
\* after_command_after_result that follows leaves the session idle and, no
\* transaction being active, resets the error to success.
C7_AsyncBfaDuringCommand ==
    /\ bf_absorbed
       => /\ state_ = "s_result"
          /\ current_error_ = "e_deadlock_error"
          /\ ~trx_active
    /\ (Returned("after_command_after_result") /\ pre.bf_absorbed)
       => (state_ = "s_idle" /\ current_error_ = "e_success")

\* C7 witness: the second hook of the scenario has returned.
C7_Witness ==
    /\ Returned("after_command_after_result")
    /\ pre.bf_absorbed
    /\ pre.error = "e_deadlock_error"
    /\ state_ = "s_idle"

\* C8: after_statement entered in executing returns may-retry exactly when
\* the error is deadlock, the mode replicating and autocommit on; with a
\* deadlock and autocommit off or another mode it returns error; it changes
\* neither the lifecycle state nor the mode.
C8_AfterStatementResult ==
    (Returned("after_statement") /\ pre.state = "s_exec")
    => /\ ret = "asr_may_retry"
          <=> (/\ current_error_ = "e_deadlock_error"
               /\ pre.mode = "m_replicating"
               /\ arg)
       /\ (/\ current_error_ = "e_deadlock_error"
           /\ ~(pre.mode = "m_replicating" /\ arg))
          => ret = "asr_error"
       /\ state_ = pre.state
       /\ mode_ = pre.mode

\* C8 witness: a deadlock in a replicating autocommit session may be retried.
C8_Witness ==
    /\ Returned("after_statement")
    /\ pre.state = "s_exec"
    /\ current_error_ = "e_deadlock_error"
    /\ ret = "asr_may_retry"

\* C9: before_statement returns 1 exactly when the transaction is active and
\* in must-abort, 0 otherwise, and leaves the lifecycle state, the mode, the
\* error and the transaction as they were.
C9_BeforeStatement ==
    Returned("before_statement")
    => /\ thrown = "none"
       /\ ret = (IF MustAbortAtEntry THEN 1 ELSE 0)
       /\ state_ = pre.state
       /\ mode_ = pre.mode
       /\ current_error_ = pre.error
       /\ trx_active = pre.active
       /\ trx_state = pre.trx

\* C9 witness: before_statement has seen the mark and left the rollback to
\* the post-command hook.
C9_Witness ==
    /\ Returned("before_statement")
    /\ MustAbortAtEntry
    /\ ret = 1
    /\ trx_state = "s_must_abort"

\* the hooks that meet a mark made in asynchronous rollback mode
AbsorbingHooks ==
    {"before_command", "after_statement", "after_command_before_result",
     "after_command_after_result"}

\* C10 as claimed: whichever of the five hooks is the first to run after the
\* mark, the error is deadlock when it returns (a call that leaves by an
\* exception does not return).
C10_Original ==
    (/\ pc = "returned"
     /\ thrown = "none"
     /\ hook \in AbsorbingHooks \cup {"before_statement"}
     /\ rollback_mode_ = "rm_async"
     /\ MustAbortAtEntry)
    => current_error_ = "e_deadlock_error"

\* C10 as amended: before_command, after_statement and the two result hooks
\* return with the error deadlock; before_statement only returns 1 and
\* leaves the error as it was, for a later hook to absorb the abort.
C10_AbortAbsorbed ==
    (/\ pc = "returned"
     /\ thrown = "none"
     /\ rollback_mode_ = "rm_async"
     /\ MustAbortAtEntry)
    => /\ hook \in AbsorbingHooks => current_error_ = "e_deadlock_error"
       /\ hook = "before_statement"
          => (ret = 1 /\ current_error_ = pre.error)

\* C10 witness: before_command has absorbed a mark made between commands.
C10_Witness ==
    /\ Returned("before_command")
    /\ rollback_mode_ = "rm_async"
    /\ MustAbortAtEntry
    /\ pre.error = "e_success"
    /\ current_error_ = "e_deadlock_error"


\* C11: override_error(success) over an error that is not success leaves by
\* the error 'Overriding error with success' with the current error as it
\* was; every other override_error(e) makes e the current error.
C11_OverrideError ==
    Returned("override_error")
    => IF pre.error # "e_success" /\ arg = "e_success"
       THEN /\ thrown = "Overriding error with success"
            /\ current_error_ = pre.error
       ELSE /\ thrown = "none"
            /\ current_error_ = arg

\* C11 witness: a deadlock was not overwritten by success.
C11_Witness ==
    /\ Returned("override_error")
    /\ pre.error = "e_deadlock_error"
    /\ arg = "e_success"
    /\ thrown = "Overriding error with success"
    /\ current_error_ = "e_deadlock_error"

\* the lifecycle states of an open session at work
WorkingStates == {"s_idle", "s_exec", "s_result"}

\* C12 as claimed: no step that keeps the session among idle, executing and
\* result changes a current error that is not success to success.
C12_Original ==
    [][(/\ state_ \in WorkingStates
        /\ state_' \in WorkingStates
        /\ current_error_ # "e_success")
       => current_error_' # "e_success"]_vars

\* C12 as amended: a current error that is not success becomes success only
\* in after_command_after_result entered with no active transaction (in
\* result, in a build with assertions); close, cleanup and open, the way
\* through none, leave the current error as it is.
C12_ErrorCleared ==
    [][/\ (current_error_ # "e_success" /\ current_error_' = "e_success")
          => /\ pc' = "returned"
             /\ hook' = "after_command_after_result"
             /\ ~pre'.active
             /\ ~ndebug => (pre'.state = "s_result" /\ state_' = "s_idle")
       /\ (pc = "ready" /\ hook' \in {"open", "close", "cleanup"})
          => current_error_' = current_error_]_vars

\* C12 witness: an error left over with no transaction active has been reset
\* on the way from result to idle.
C12_Witness ==
    /\ Returned("after_command_after_result")
    /\ pre.state = "s_result"
    /\ pre.error = "e_deadlock_error"
    /\ ~pre.active
    /\ current_error_ = "e_success"
    /\ state_ = "s_idle"


\* C13 as claimed: cleanup called right after the open of a fresh client
\* (state none, no transaction, no error) leaves the client in none with no
\* active transaction and no error.
C13_Original ==
    (Returned("cleanup") /\ pre.trail.last = "open")
    => /\ state_ = "s_none"
       /\ ~trx_active
       /\ current_error_ = "e_success"

\* C13 as amended: cleanup right after open is rejected and leaves the
\* client idle; open, close, cleanup in a row bring the fresh client back to
\* none with no active transaction and no error.
C13_OpenCloseCleanup ==
    /\ (Returned("cleanup") /\ pre.trail.last = "open")
       => /\ thrown = "Unallowed state transition"
          /\ state_ = "s_idle"
    /\ (Returned("cleanup") /\ pre.trail.last = "close")
       => /\ thrown = "none"
          /\ pre.state = "s_quitting"
          /\ state_ = "s_none"
          /\ ~trx_active
          /\ current_error_ = "e_success"

\* C13 witness: the round trip through close has come back to none.
C13_Witness ==
    /\ Returned("cleanup")
    /\ pre.trail.last = "close"
    /\ state_ = "s_none"


\* the call before this one entered TOI: from replicating mode through the
\* provider, or from high-priority mode locally
EnteredToi ==
    \/ pre.trail = [last |-> "enter_toi", from |-> "m_replicating"]
    \/ pre.trail = [last |-> "enter_toi_ws_meta", from |-> "m_high_priority"]

\* C14: leave_toi right after a successful enter_toi from mode M puts the
\* client back in mode M, with the saved mode back at local and the TOI meta
\* cleared.
C14_ToiRoundTrip ==
    (Returned("leave_toi") /\ EnteredToi)
    => /\ thrown = "none"
       /\ pre.mode = "m_toi"
       /\ mode_ = pre.trail.from
       /\ toi_mode_ = "m_local"
       /\ toi_meta_ = "undefined"

\* C14 witness: an applier is back in high-priority mode.
C14_Witness ==
    /\ Returned("leave_toi")
    /\ pre.trail = [last |-> "enter_toi_ws_meta", from |-> "m_high_priority"]
    /\ pre.toi_meta = "set"
    /\ mode_ = "m_high_priority"


\* the call that has returned made the embedder call op
Called(op) == \E i \in DOMAIN trace : trace[i].op = op

Calls(op) == Cardinality({i \in DOMAIN trace : trace[i].op = op})

\* C16: close entered in idle leaves the session in quitting and has called
\* client-service rollback once if a transaction was active, not at all
\* otherwise; entered in any other state it leaves by the 'Unallowed state
\* transition' error with no rollback and the state as it was.
C16_Close ==
    Returned("close")
    => IF pre.state = "s_idle"
       THEN /\ thrown = "none"
            /\ state_ = "s_quitting"
            /\ Calls("client_service.rollback") = (IF pre.active THEN 1 ELSE 0)
       ELSE /\ thrown = "Unallowed state transition"
            /\ state_ = pre.state
            /\ trace = << >>
            /\ trx_state = pre.trx

\* C16 witness: the connection was closed with a transaction still open,
\* which was rolled back.
C16_Witness ==
    /\ Returned("close")
    /\ pre.state = "s_idle"
    /\ pre.active
    /\ pre.trx = "s_executing"
    /\ state_ = "s_quitting"
    /\ trx_state = "s_aborted"


\* the client fields the mutex is there for
ClientFields == {"state_", "mode_", "toi_mode_", "current_error_"}

\* C17: no hook reads or writes the lifecycle state, the mode, the saved TOI
\* mode or the current error without holding the client mutex.
C17_HooksHoldMutex ==
    \A i \in DOMAIN trace :
        trace[i].op \in ClientFields => trace[i].held


\* the calls into the embedder: the client service and the provider
EmbedderCalls ==
    {"client_service.rollback", "provider.enter_toi", "provider.leave_toi"}

\* C18: no hook calls client-service rollback or the provider's enter_toi or
\* leave_toi with the client mutex held, and after such a call a hook
\* touches the client's fields only with the mutex taken again.
C18_EmbedderCallsUnlocked ==
    /\ \A i \in DOMAIN trace :
           trace[i].op \in EmbedderCalls => ~trace[i].held
    /\ \A i, j \in DOMAIN trace :
           (/\ i < j
            /\ trace[i].op \in EmbedderCalls
            /\ trace[j].op \in ClientFields)
           => trace[j].held


\* C19: while before_command waits, in synchronous rollback mode, for a
\* transaction that is aborting, the session is not yet executing and the
\* background rollbacker can finish the rollback, so that the wait ends.
C19_SyncRollbackWait ==
    pc = "before_command_wait"
    => /\ rollback_mode_ = "rm_sync"
       /\ trx_state = "s_aborting"
       /\ state_ # "s_exec"
       /\ ENABLED background_rollback


\* before_command entered in idle has returned, the transaction having been
\* active and already rolled back when it was entered
AbortedAtEntry ==
    /\ Returned("before_command")
    /\ pre.state = "s_idle"
    /\ pre.active
    /\ pre.trx = "s_aborted"

\* C20 as claimed: the call has set the error to deadlock, called
\* client-service rollback and transaction after_statement, and returned 1
\* with the session executing and the transaction no longer active.
C20_Original ==
    AbortedAtEntry
    => /\ current_error_ = "e_deadlock_error"
       /\ Calls("client_service.rollback") = 1
       /\ Calls("transaction.after_statement") = 1
       /\ ret = 1
       /\ state_ = "s_exec"
       /\ ~trx_active

\* C20 as amended: the same, but for the rollback, which is not called: the
\* transaction is only cleaned up by transaction after_statement.
C20_BeforeCommandAborted ==
    AbortedAtEntry
    => /\ thrown = "none"
       /\ current_error_ = "e_deadlock_error"
       /\ Calls("client_service.rollback") = 0
       /\ Calls("transaction.after_statement") = 1
       /\ ret = 1
       /\ state_ = "s_exec"
       /\ ~trx_active
       /\ trx_state = "s_aborted"

\* C20 witness: an abort that was over before the command came is reported
\* as a deadlock.
C20_Witness ==
    /\ AbortedAtEntry
    /\ pre.error = "e_success"
    /\ current_error_ = "e_deadlock_error"
    /\ ret = 1


\* ---------------------------------------------------------------- C25
\* the calls that go through the provider: enter_toi(keys, buffer, flags)
\* always, leave_toi() when the saved TOI mode is replicating
UsesProvider ==
    \/ hook = "enter_toi"
    \/ hook = "leave_toi" /\ pre.toi_mode = "m_replicating"

\* C25 as stated: with no provider loaded, every enter_toi and every
\* leave_toi that returns raises 'provider not loaded' and leaves the mode,
\* the saved TOI mode and the current error as they were
C25_Original ==
    (/\ pc = "returned"
     /\ ~provider_
     /\ hook \in {"enter_toi", "leave_toi"})
    => /\ thrown = "provider not loaded"
       /\ mode_ = pre.mode
       /\ toi_mode_ = pre.toi_mode
       /\ current_error_ = pre.error

\* C25: with no provider loaded, enter_toi(keys, buffer, flags), and
\* leave_toi() when the saved TOI mode is replicating, raise 'provider not
\* loaded' and leave the mode, the saved TOI mode and the current error
\* unchanged; a leave_toi() with any other saved TOI mode asks for no
\* provider and never raises 'provider not loaded'
C25_ProviderNotLoaded ==
    (/\ pc = "returned"
     /\ ~provider_
     /\ hook \in {"enter_toi", "leave_toi"})
    => IF UsesProvider
       THEN /\ thrown = "provider not loaded"
            /\ mode_ = pre.mode
            /\ toi_mode_ = pre.toi_mode
            /\ current_error_ = pre.error
       ELSE /\ thrown # "provider not loaded"
            /\ Calls("provider.leave_toi") = 0

\* enter_toi(keys, buffer, flags) of an executing, replicating client was
\* refused for want of a provider
C25_Witness ==
    /\ pc = "returned"
    /\ ~provider_
    /\ hook = "enter_toi"
    /\ pre.state = "s_exec"
    /\ pre.mode = "m_replicating"
    /\ thrown = "provider not loaded"


\* ---------------------------------------------------------------- C26
\* the transaction was active and rolled back already when the call was
\* entered on an idle session
AbortedWhenIdle ==
    pre.state = "s_idle" /\ pre.active /\ pre.trx = "s_aborted"

\* C26: a transaction that after_command_after_result rolls back on its way
\* to idle is still active, and aborted, in idle; a before_command entered on
\* an idle session with an active aborted transaction returns 1 with the
\* transaction no longer active and the current error deadlock; no
\* before_command entered in idle returns with an active aborted transaction;
\* and the command cycle such a before_command opened, no transaction being
\* started in it, ends in after_command_after_result with the session idle
\* and the current error success
C26_AbortedCleanedByNextCommand ==
    /\ (/\ Returned("after_command_after_result")
        /\ thrown = "none"
        /\ MustAbortAtEntry)
       => /\ state_ = "s_idle"
          /\ trx_active
          /\ trx_state = "s_aborted"
    /\ (/\ Returned("before_command")
        /\ thrown = "none"
        /\ AbortedWhenIdle)
       => /\ ~trx_active
          /\ current_error_ = "e_deadlock_error"
          /\ ret = 1
    /\ (/\ Returned("before_command")
        /\ thrown = "none"
        /\ pre.state = "s_idle")
       => ~(trx_active /\ trx_state = "s_aborted")
    /\ (/\ Returned("after_command_after_result")
        /\ thrown = "none"
        /\ trail.last = "after_command_after_result")
       => /\ state_ = "s_idle"
          /\ ~trx_active
          /\ current_error_ = "e_success"

\* the command cycle that began by cleaning up a transaction rolled back by
\* the previous after_command_after_result has ended
C26_Witness ==
    /\ Returned("after_command_after_result")
    /\ thrown = "none"
    /\ trail = [last |-> "after_command_after_result", from |-> "s_aborted"]
    /\ pre.error = "e_deadlock_error"
    /\ current_error_ = "e_success"
    /\ rollback_mode_ = "rm_async"


\* ---------------------------------------------------------------- C27
\* C27: open(id) on a client that is not in state none leaves by the
\* 'Unallowed state transition' error with the owning thread id, the current
\* thread id, the client id and the lifecycle state as they were.
C27_RejectedOpenUntouched ==
    (Returned("open") /\ pre.state # "s_none")
    => /\ thrown = "Unallowed state transition"
       /\ owning_thread_id_ = pre.owner
       /\ current_thread_id_ = pre.current
       /\ id_ = pre.id
       /\ state_ = pre.state


\* ---------------------------------------------------------------- C28
\* the client was in no TOI section when the call was entered: mode toi is
\* entered by a successful enter_toi only, and left by leave_toi
OutsideToi == pre.mode # "m_toi"

\* C28: leave_toi entered outside a TOI section makes no provider call,
\* leaves by the 'Unallowed mode transition' error and keeps the mode, the
\* saved TOI mode and the TOI meta data as they were
C28_LeaveToiOutsideToi ==
    (Returned("leave_toi") /\ OutsideToi)
    => /\ Calls("provider.leave_toi") = 0
       /\ thrown = "Unallowed mode transition"
       /\ mode_ = pre.mode
       /\ toi_mode_ = pre.toi_mode
       /\ toi_meta_ = pre.toi_meta

\* a second leave_toi, right after the one that left the TOI section, was
\* refused
C28_Witness ==
    /\ Returned("leave_toi")
    /\ pre.trail = [last |-> "leave_toi", from |-> "m_toi"]
    /\ OutsideToi
    /\ thrown = "Unallowed mode transition"


\* ---------------------------------------------------------------- C29
\* C29 as stated: after_statement returns success only when the current
\* error, after the transaction's after_statement, is success
C29_Original ==
    (Returned("after_statement") /\ ret = "asr_success")
    => current_error_ = "e_success"

\* C29: after_statement returns error or may-retry exactly when the current
\* error, after the transaction's after_statement, is deadlock; with any
\* other current error, success or not, it returns success
C29_SuccessUnlessDeadlock ==
    Returned("after_statement")
    => /\ ret \in {"asr_success", "asr_error", "asr_may_retry"}
       /\ ret = "asr_success" <=> current_error_ # "e_deadlock_error"

\* after_statement of an executing session returned success with an error
\* other than deadlock standing
C29_Witness ==
    /\ Returned("after_statement")
    /\ pre.state = "s_exec"
    /\ current_error_ \notin {"e_success", "e_deadlock_error"}
    /\ ret = "asr_success"


\* ---------------------------------------------------------------- C21
\* the path of the policy in force, as the specification draws it
ClaimedPath ==
    IF sst_before_init
    THEN <<"s_disconnected", "s_connected", "s_joiner", "s_initializing",
           "s_initialized", "s_joined", "s_synced">>
    ELSE <<"s_disconnected", "s_initializing", "s_initialized",
           "s_connected", "s_joiner", "s_joined", "s_synced">>

\* the edges the specification permits: of the path, to donor and back, into
\* disconnecting, and from there to disconnected
ClaimedEdges ==
    {<<ClaimedPath[i], ClaimedPath[i + 1]>> : i \in 1..(Len(ClaimedPath) - 1)}
    \cup {<<"s_synced", "s_donor">>, <<"s_donor", "s_joined">>}
    \cup {<<s, "s_disconnecting">> : s \in ServerStateSet \ {"s_disconnecting"}}
    \cup {<<"s_disconnecting", "s_disconnected">>}

Disconnected ==
    /\ pc # "aborted"
    /\ server_state_ = "s_disconnected"
    /\ server_pc["disconnecter"] = "wait_disconnected"
    /\ asked = [from |-> "s_disconnecting", to |-> "s_disconnected",
                thrown |-> "none"]
    /\ ~server_mutex_

\* C22: once disconnect() has driven the server to disconnected, every thread
\* blocked in wait_until_state(S), whatever S, can wake up and return
C22_DisconnectWakesWaiters ==
    \A w \in Waiters :
        (Disconnected /\ waiting[w] # "-")
        => ENABLED wait_until_state_woken(w)

\* ---------------------------------------------------------------- C23
\* the session is executing a command in replicating mode
OnReplicatingPath == state_ = "s_exec" /\ mode_ = "m_replicating"

\* C23: with the SST before the initialization, sst_received cannot go on
\* before initialized() is called; the server is in joined, synced or donor
\* only after initialized() has been called; no session is on the replicating
\* path before that; and sst_received can go on once initialized() has been
\* called
C23_SstBeforeInit ==
    sst_before_init
    => /\ (server_pc["joiner"] = "wait_initialized" /\ ~init_initialized_)
          => ~ENABLED sst_received_initialized
       /\ server_state_ \in {"s_joined", "s_synced", "s_donor"}
          => init_initialized_
       /\ OnReplicatingPath => init_initialized_
       /\ (/\ pc # "aborted"
           /\ server_pc["joiner"] = "wait_initialized"
           /\ init_initialized_
           /\ ~server_mutex_)
          => ENABLED sst_received_initialized

\* ---------------------------------------------------------------- C24
\* C24: every read of a server field through a public getter is made with the
\* server mutex held, and none while the field is being written
C24_GettersHoldMutex ==
    observed # NoRead
    => /\ observed.held
       /\ ~observed.mutated

\* -------------------------------------------------------------------- Next
Next ==
    \/ Ack
    \/ \E t \in Threads, id \in ClientIds : open(t, id)
    \/ \E t \in Threads : close(t)
    \/ close_unlocked
    \/ \E t \in Threads : cleanup(t)
    \/ \E t \in Threads : before_command(t)
    \/ before_command_must_abort
    \/ before_command_aborted
    \/ \E t \in Threads : after_command_before_result(t)
    \/ after_command_before_result_must_abort
    \/ \E t \in Threads : after_command_after_result(t)
    \/ after_command_after_result_must_abort
    \/ \E t \in Threads : before_statement(t)
    \/ \E t \in Threads, ac \in BOOLEAN : after_statement(t, ac)
    \/ \E t \in Threads, e \in ClientErrors : OverrideError(t, e)
    \/ \E t \in Threads, st \in ProviderStatus : enter_toi(t, st)
    \/ \E t \in Threads : enter_toi_ws_meta(t)
    \/ \E t \in Threads, st \in ProviderStatus : leave_toi(t, st)
    \/ start_transaction
    \/ commit
    \/ bf_abort
    \/ background_rollback

Spec == Init /\ [][Next]_vars

\* ------------------------------------------------------------ the server
\* a server under either policy, with one replicating session on it
ServerSpecInit ==
    /\ ClientInit
    /\ mode_ = "m_replicating"
    /\ rollback_mode_ = "rm_async"
    /\ provider_
    /\ ServerInit
    /\ sst_before_init \in BOOLEAN

ServerNext ==
    \/ \E status \in ViewStatus : on_view(status)
    \/ on_view_stored
    \/ on_sync
    \/ prepare_for_sst
    \/ start_sst
    \/ sst_sent
    \/ sst_received
    \/ sst_received_initialized
    \/ initialized
    \/ initialized_done
    \/ disconnect
    \/ disconnect_disconnected
    \/ \E w \in Waiters, s \in ServerStateSet : wait_until_state(w, s)
    \/ \E w \in Waiters : wait_until_state_woken(w)
    \/ Ack
    \/ \E id \in {id_} : open(owning_thread_id_, id)
    \/ before_command(owning_thread_id_)

ServerSpec == ServerSpecInit /\ [][ServerNext]_vars

\* ------------------------------------------------ the server's getters
\* the threads that write the server's fields, and the getters
GetterNext ==
    \/ \E status \in ViewStatus : on_view(status)
    \/ on_view_stored
    \/ on_connect
    \/ on_connect_stored
    \/ pause
    \/ pause_stored
    \/ resume
    \/ initialized
    \/ initialized_done
    \/ connected_gtid
    \/ current_view
    \/ pause_seqno
    \/ is_initialized
    \/ server_state
    \/ last_committed_gtid

GetterSpec == ServerSpecInit /\ [][GetterNext]_vars
====
